---- MODULE Spec2Model ----
(***************************************************************************)
(* sqlx-pg-migrate: migrate(url, dir, table) of src/lib.rs as a state      *)
(* machine.  The database is the committed state (dbExists, tableExists,   *)
(* history, applied); every caller of migrate owns the locals of one call  *)
(* (url, dir, migrated, files, pos, tx) and a program counter that stands  *)
(* at the await it is about to run.                                        *)
(*                                                                         *)
(* Strings are sequences of byte values: a path or a content is valid      *)
(* UTF-8 when it holds no byte above 127, and paths are ordered byte by    *)
(* byte.                                                                   *)
(***************************************************************************)
EXTENDS Integers, Sequences, FiniteSets, TLC

\* ------------------------------------------------------------------ bounds
\* The largest number of files a migrations directory holds in one call.
MaxFiles == 3

\* ------------------------------------------------------------ byte values
Slash == 47
QMark == 63
MaxAscii == 127

\* The callers of migrate; Spec runs the calls of caller 1 one after another.
Callers == {1, 2}
Serial == {1}

\* The paths a migrations directory may hold: "0", "01", "1" and the path
\* "0\xFF", which is not UTF-8.
Paths == { <<48>>, <<48, 49>>, <<49>>, <<48, 255>> }

\* File contents: "S" (UTF-8) and "\xFF" (not UTF-8).
Sql == <<83>>
NotText == <<255>>

\* The connection URLs: "s://h/d" and "d".
URLs == { <<115, 58, 47, 47, 104, 47, 100>>, <<100>> }

\* ------------------------------------------------------- pure operators
Range(s) == { s[i] : i \in 1..Len(s) }

\* Path::to_str and File::contents_utf8: Some iff the bytes are UTF-8.
IsUtf8(bytes) == \A i \in 1..Len(bytes) : bytes[i] <= MaxAscii

\* A comparison that orders the paths descending.
PathLessReversed(a, b) ==
    \E i \in 1..(Len(a)) :
        /\ \A j \in 1..(i - 1) : j <= Len(b) /\ a[j] = b[j]
        /\ \/ i = Len(b) + 1
           \/ i <= Len(b) /\ a[i] > b[i]

\* a.path().partial_cmp(b.path()) = Less: byte-wise lexicographic order of
\* the paths of one directory.
PathLess(a, b) ==
    \E i \in 1..(Len(b)) :
        /\ \A j \in 1..(i - 1) : j <= Len(a) /\ a[j] = b[j]
        /\ \/ i = Len(a) + 1
           \/ i <= Len(a) /\ a[i] < b[i]

RECURSIVE InsertFile(_, _)
InsertFile(f, s) ==
    IF s = <<>> THEN <<f>>
    ELSE IF PathLess(f.path, Head(s).path) THEN <<f>> \o s
    ELSE <<Head(s)>> \o InsertFile(f, Tail(s))

\* A collection that is never sorted.
SortFilesUnsorted(s) == s

\* files.sort_by(|a, b| a.path().partial_cmp(b.path()).unwrap())
RECURSIVE SortFiles(_)
SortFiles(s) ==
    IF s = <<>> THEN <<>>
    ELSE InsertFile(s[Len(s)], SortFiles(SubSeq(s, 1, Len(s) - 1)))

\* A cardinality check that lets the empty directory pass.
TooManyMigratedUnlessEmpty(m, fs) == Len(fs) > 0 /\ Len(m) > Len(fs)

\* A cardinality check that is off by one.
TooManyMigratedGe(m, fs) == Len(m) >= Len(fs)

\* migrated.len() > files.len()
TooManyMigrated(m, fs) == Len(m) > Len(fs)

\* A table creation that does not look at the history.
NeedsTableAlways(m) == TRUE

\* A table creation that never happens.
NeedsTableNever(m) == FALSE

\* The test inverted: the table is created when there is a history.
NeedsTableIfRecorded(m) == m # <<>>

\* migrated.is_empty()
NeedsTable(m) == m = <<>>

\* A loop that takes the last recorded position for a new one.
AlreadyRunOffByOne(i, m) == i + 1 < Len(m)

\* pos < migrated.len()
AlreadyRun(i, m) == i < Len(m)

\* A loop that does not compare the recorded identity.
MismatchIgnored(m, i, path) == FALSE

\* migrated[pos] != path
Mismatch(m, i, path) == m[i + 1] # path

\* The index of the last `c` in s, 0 when there is none (rsplitn(2, c)).
LastIndex(s, c) ==
    IF \E i \in 1..Len(s) : s[i] = c
    THEN CHOOSE i \in 1..Len(s) : s[i] = c /\ \A j \in (i + 1)..Len(s) : s[j] # c
    ELSE 0

\* The index of the first `c` in s, Len(s) + 1 when there is none (splitn(2, c)).
FirstIndex(s, c) ==
    IF \E i \in 1..Len(s) : s[i] = c
    THEN CHOOSE i \in 1..Len(s) : s[i] = c /\ \A j \in 1..(i - 1) : s[j] # c
    ELSE Len(s) + 1

\* A split that does not check for two parts: without a '/' the whole url
\* is taken for the database name.
BaseAndDbUnchecked(u) ==
    LET k == LastIndex(u, Slash)
        tail == SubSeq(u, k + 1, Len(u))
    IN [ok |-> TRUE,
        base |-> SubSeq(u, 1, k - 1),
        db |-> SubSeq(tail, 1, FirstIndex(tail, QMark) - 1)]

\* base_and_db(url): [ok, base, db].
BaseAndDb(u) ==
    LET k == LastIndex(u, Slash)
        tail == SubSeq(u, k + 1, Len(u))
    IN IF k = 0
       THEN [ok |-> FALSE, base |-> <<>>, db |-> <<>>]
       ELSE [ok |-> TRUE,
             base |-> SubSeq(u, 1, k - 1),
             db |-> SubSeq(tail, 1, FirstIndex(tail, QMark) - 1)]

\* The urls scheme://[host]/<name>[?query] with a name of at most MaxName
\* bytes and a query of at most MaxQuery bytes, which may hold '/'.
MaxName == 2
MaxQuery == 2

Strs(A, n) == UNION { [1..k -> A] : k \in 0..n }

\* "s://"
Scheme == <<115, 58, 47, 47>>
Hosts == { <<>>, <<104>> }
Names == Strs({100, 101}, MaxName)
Queries == { <<>> } \cup { <<QMark>> \o t : t \in Strs({97, Slash}, MaxQuery) }

UrlForm(host, name, query) == Scheme \o host \o <<Slash>> \o name \o query

UrlForms == { UrlForm(h, n, q) : h \in Hosts, n \in Names, q \in Queries }

\* ------------------------------------------------------------------ values
File(path, content) == [path |-> path, content |-> content]

\* The files a migrations directory may hold: every path with UTF-8
\* content, and the paths "01" and "1" also with content that is not UTF-8.
FileU == { File(q, Sql) : q \in Paths } \cup { File(q, NotText) : q \in {<<48, 49>>, <<49>>} }

\* What dir.files() may return: up to MaxFiles files of distinct paths, in
\* any order.
Dirs ==
    { s \in UNION { [1..n -> FileU] : n \in 0..MaxFiles } :
        \A i, j \in 1..Len(s) : s[i].path = s[j].path => i = j }

PathsOf(s) == { s[i].path : i \in 1..Len(s) }

Res(kind, arg) == [kind |-> kind, arg |-> arg]
NoRes == Res("none", <<>>)
OkRes == Res("Ok", <<>>)

Stmt(op, arg) == [op |-> op, arg |-> arg]

\* No transaction is open; `ended` tells how the call's transaction was
\* closed: "no" (none was begun), "commit" or "rollback".
NoTx == [open |-> FALSE, created |-> FALSE, rows |-> <<>>, bodies |-> <<>>,
         ended |-> "no"]

\* The outcomes of a connect or a query: success, a database error with
\* code 3D000 or 42P01, with another code, with no code, or an error that
\* is not a database error.
Failures == {"dbcode", "nocode", "other"}

\* What PgConnection::connect(url) may return.
ConnectOutcomes(exists) == (IF exists THEN {"ok"} ELSE {"3D000"}) \cup Failures

\* What the SELECT of get_migrated may return.
QueryOutcomes(exists) == (IF exists THEN {"ok"} ELSE {"42P01"}) \cup Failures

\* An event on a connection other than db's statements: the connect to
\* the url or to the administrative url, CREATE DATABASE, the SELECT.
Ev(op, to, arg, out) == [op |-> op, to |-> to, arg |-> arg, out |-> out]

\* "/postgres"
SlashPostgres == <<47, 112, 111, 115, 116, 103, 114, 101, 115>>

NoSplit == [ok |-> FALSE, base |-> <<>>, db |-> <<>>]

\* A match that takes every database error for a missing database.
FirstConnectVerdictAnyDbError(o) ==
    IF o = "ok" THEN "exists"
    ELSE IF o \in {"3D000", "42P01", "dbcode", "nocode"} THEN "create"
    ELSE "error"

\* maybe_make_db: the match on the first connect's result.
FirstConnectVerdict(o) ==
    IF o = "ok" THEN "exists"
    ELSE IF o = "3D000" THEN "create"
    ELSE "error"

\* SELECT migration FROM <table> ORDER BY id
SelectOrderById(rows) ==
    [i \in 1..Cardinality(rows) |->
        (CHOOSE r \in rows :
            Cardinality({x \in rows : x.id < r.id}) = i - 1).migration]

\* A match that reads every database error as an empty history.
MigratedOfAnyDbError(o, rows) ==
    IF o = "ok" THEN [ok |-> TRUE, rows |-> SelectOrderById(rows)]
    ELSE IF o \in {"3D000", "42P01", "dbcode", "nocode"}
    THEN [ok |-> TRUE, rows |-> <<>>]
    ELSE [ok |-> FALSE, rows |-> <<>>]

\* get_migrated: the match on the query's result.
MigratedOf(o, rows) ==
    IF o = "ok" THEN [ok |-> TRUE, rows |-> SelectOrderById(rows)]
    ELSE IF o = "42P01" THEN [ok |-> TRUE, rows |-> <<>>]
    ELSE [ok |-> FALSE, rows |-> <<>>]

\* ---------------------------------------------------------------- state
VARIABLES
    dbExists,     \* the database named by the URL exists
    tableExists,  \* committed: the bookkeeping table exists
    history,      \* committed: the migration column, ordered by id
    applied,      \* committed: how often each migration body took effect
    pc,           \* per caller: the step migrate is about to run
    url,          \* per caller: the url argument (cleared once it is dead)
    dir,          \* per caller: dir.files(), in the collection's order
    migrated,     \* per caller: the history get_migrated returned
    files,        \* per caller: the local Vec files
    pos,          \* per caller: the loop index (0-based, as in the source)
    tx,           \* per caller: the open transaction and its pending writes
    result,       \* per caller: what migrate returned
    stmts,        \* per caller: the statements sent on db since connecting
    conn,         \* per caller: the connects, CREATE DATABASE and SELECT so far
    split,        \* per caller: (base_url, db_name) of maybe_make_db
    fault,        \* per caller: the database refused a step of this call
                  \*             for a reason outside the model
    pre,          \* per caller: the committed state when the call started
    last,         \* the latest call that returned: its outcome and candidates
    prev,         \* the current call's view of the call before it
    appendOnly,   \* every candidate set so far only appended to the one before
    race          \* per caller: "no", or how its INSERT fared that found the
                  \*             identity inserted by an open transaction:
                  \*             "waiting", "lost", "won"

dbVars == <<dbExists, tableExists, history, applied>>
ghostVars == <<pre, last, prev, appendOnly, race>>
vars == <<dbExists, tableExists, history, applied, pc, url, dir, migrated,
          files, pos, tx, result, stmts, conn, split, fault, pre, last, prev,
          appendOnly, race>>

\* The rows of the bookkeeping table; ids ascend in the order of insertion.
TableRows == { [id |-> i, migration |-> history[i]] : i \in 1..Len(history) }

Committed == [history |-> history, applied |-> applied, tableExists |-> tableExists]

Bodies(t) == SelectSeq(t, LAMBDA s : s.op = "BODY")
Inserts(t) == SelectSeq(t, LAMBDA s : s.op = "INSERT")

\* ------------------------------------------ vocabulary of the properties
\* Ascending order of identity strings, byte by byte.
RECURSIVE StrLess(_, _)
StrLess(a, b) ==
    IF b = <<>> THEN FALSE
    ELSE IF a = <<>> THEN TRUE
    ELSE IF Head(a) # Head(b) THEN Head(a) < Head(b)
    ELSE StrLess(Tail(a), Tail(b))

\* The identities of a candidate set in ascending order.
Ascending(S) ==
    CHOOSE s \in [1..Cardinality(S) -> S] :
        /\ Range(s) = S
        /\ \A i, j \in 1..Cardinality(S) : i < j => StrLess(s[i], s[j])

IsPrefix(s, t) == Len(s) <= Len(t) /\ s = SubSeq(t, 1, Len(s))

ArgsOf(t) == [i \in 1..Len(t) |-> t[i].arg]

\* Used by Start for the bookkeeping variable appendOnly.
\* The new candidate set keeps every old candidate and every added one
\* sorts after all the old ones.
AppendsTo(old, new) ==
    /\ old \subseteq new
    /\ \A n \in new \ old : \A o \in old : StrLess(o, n)

NoLast == [ok |-> FALSE, set |-> {}, bodies |-> 0]
NoPrev == [ok |-> FALSE, same |-> FALSE, bodies |-> 0]

Init ==
    /\ dbExists \in BOOLEAN
    /\ tableExists = FALSE
    /\ history = <<>>
    /\ applied = [q \in Paths |-> 0]
    /\ pc = [p \in Callers |-> "idle"]
    /\ url = [p \in Callers |-> <<>>]
    /\ dir = [p \in Callers |-> <<>>]
    /\ migrated = [p \in Callers |-> <<>>]
    /\ files = [p \in Callers |-> <<>>]
    /\ pos = [p \in Callers |-> 0]
    /\ tx = [p \in Callers |-> NoTx]
    /\ result = [p \in Callers |-> NoRes]
    /\ stmts = [p \in Callers |-> <<>>]
    /\ conn = [p \in Callers |-> <<>>]
    /\ split = [p \in Callers |-> NoSplit]
    /\ fault = [p \in Callers |-> FALSE]
    /\ pre = [p \in Callers |-> [history |-> <<>>, applied |-> [q \in Paths |-> 0],
                                 tableExists |-> FALSE]]
    /\ last = NoLast
    /\ prev = NoPrev
    /\ appendOnly = TRUE
    /\ race = [p \in Callers |-> "no"]

\* ------------------------------------------------------------- helpers
Goto(p, label) == pc' = [pc EXCEPT ![p] = label]

Sent(p, op, arg) == stmts' = [stmts EXCEPT ![p] = Append(@, Stmt(op, arg))]

Did(p, op, to, arg, out) == conn' = [conn EXCEPT ![p] = Append(@, Ev(op, to, arg, out))]

\* A transaction that stays open when the call returns an error.
TxDropLeaks(t) == t

\* Dropping the Transaction (and the connection) without a commit: the
\* pending writes are rolled back.
TxDrop(t) == [NoTx EXCEPT !.ended = IF t.open THEN "rollback" ELSE t.ended]

Others(p) == Callers \ {p}

\* An INSERT that waits for every other open transaction, whatever it holds.
PendingRowAnyOpen(p, x) == \E q \in Others(p) : tx[q].open

\* Another caller's open transaction has inserted the identity x: an INSERT
\* of x waits on the unique index until that transaction ends.
PendingRow(p, x) == \E q \in Others(p) : tx[q].open /\ x \in Range(tx[q].rows)

\* Another caller's open transaction has created the bookkeeping table: a
\* CREATE TABLE of the same name waits until that transaction ends.
PendingTable(p) == \E q \in Others(p) : tx[q].open /\ tx[q].created

\* An error return of migrate (`?` or `return Err`): tx and db go out of scope.
Fail(p, kind, arg, refused) ==
    /\ Goto(p, "done")
    /\ result' = [result EXCEPT ![p] = Res(kind, arg)]
    /\ tx' = [tx EXCEPT ![p] = TxDrop(@)]
    /\ fault' = [fault EXCEPT ![p] = @ \/ refused]

\* --------------------------------------------------------------- migrate
\* A call of migrate(url, dir, table) starts.
StartCall(p, us, ds) ==
    /\ pc[p] = "idle"
    /\ \E u \in us, d \in ds :
        /\ url' = [url EXCEPT ![p] = u]
        /\ dir' = [dir EXCEPT ![p] = d]
        /\ appendOnly' = (appendOnly /\ AppendsTo(last.set, PathsOf(d)))
        /\ prev' = [ok |-> last.ok, same |-> last.set = PathsOf(d),
                    bodies |-> last.bodies]
    /\ last' = NoLast
    /\ pre' = [pre EXCEPT ![p] = Committed]
    /\ Goto(p, "first_connect")
    /\ UNCHANGED <<dbVars, migrated, files, pos, tx, result, stmts, conn, split, fault,
                   race>>

Start(p) == StartCall(p, URLs, Dirs)

\* maybe_make_db: PgConnection::connect(url) and the match on its result.
FirstConnect(p) ==
    /\ pc[p] = "first_connect"
    /\ \E o \in ConnectOutcomes(dbExists) :
        /\ Did(p, "connect", "url", <<>>, o)
        /\ IF FirstConnectVerdict(o) = "exists"
           THEN /\ Goto(p, "connect")
                /\ UNCHANGED <<result, tx, fault>>
           ELSE IF FirstConnectVerdict(o) = "create"
           THEN /\ Goto(p, "admin_connect")
                /\ UNCHANGED <<result, tx, fault>>
           ELSE Fail(p, "ExistingConnectError", <<>>, TRUE)
    /\ UNCHANGED <<dbVars, url, dir, migrated, files, pos, stmts, split, ghostVars>>

\* maybe_make_db: base_and_db(url)? and the connect to "<base>/postgres".
AdminConnect(p) ==
    /\ pc[p] = "admin_connect"
    /\ LET bd == BaseAndDb(url[p]) IN
        IF ~bd.ok
        THEN /\ Fail(p, "InvalidURL", url[p], FALSE)
             /\ UNCHANGED <<conn, split>>
        ELSE /\ split' = [split EXCEPT ![p] = bd]
             /\ \E o \in {"ok", "other"} :
                 /\ Did(p, "connect", "admin", bd.base \o SlashPostgres, o)
                 /\ IF o = "ok"
                    THEN /\ Goto(p, "create_db")
                         /\ UNCHANGED <<result, tx, fault>>
                    ELSE Fail(p, "BaseConnect", bd.base, TRUE)
    /\ UNCHANGED <<dbVars, url, dir, migrated, files, pos, stmts, ghostVars>>

\* A provisioner that takes a failed CREATE DATABASE for "it exists now"
\* and goes on when the database is there.
CreateDatabaseRechecks(p) ==
    /\ pc[p] = "create_db"
    /\ \/ /\ ~dbExists
          /\ dbExists' = TRUE
          /\ Did(p, "CREATE DATABASE", "admin", split[p].db, "ok")
          /\ Goto(p, "connect")
          /\ UNCHANGED <<result, tx, fault>>
       \/ /\ dbExists
          /\ Did(p, "CREATE DATABASE", "admin", split[p].db, "dbcode")
          /\ Goto(p, "connect")
          /\ UNCHANGED <<dbExists, result, tx, fault>>
       \/ /\ ~dbExists
          /\ Fail(p, "DB", <<>>, TRUE)
          /\ Did(p, "CREATE DATABASE", "admin", split[p].db, "dbcode")
          /\ UNCHANGED dbExists
    /\ UNCHANGED <<tableExists, history, applied, url, dir, migrated, files, pos,
                   stmts, split, ghostVars>>

\* maybe_make_db: CREATE DATABASE "<db_name>" on the administrative connection.
CreateDatabase(p) ==
    /\ pc[p] = "create_db"
    /\ \/ /\ ~dbExists
          /\ dbExists' = TRUE
          /\ Did(p, "CREATE DATABASE", "admin", split[p].db, "ok")
          /\ Goto(p, "connect")
          /\ UNCHANGED <<result, tx, fault>>
       \/ /\ Fail(p, "DB", <<>>, ~dbExists)
          /\ Did(p, "CREATE DATABASE", "admin", split[p].db, "dbcode")
          /\ UNCHANGED dbExists
    /\ UNCHANGED <<tableExists, history, applied, url, dir, migrated, files, pos,
                   stmts, split, ghostVars>>

\* let mut db = PgConnection::connect(url).await?; url is not read again.
Connect(p) ==
    /\ pc[p] = "connect"
    /\ \E o \in {"ok", "other"} :
        /\ Did(p, "connect", "url", <<>>, o)
        /\ IF o = "ok"
           THEN /\ Goto(p, "get_migrated")
                /\ UNCHANGED <<result, tx, fault>>
           ELSE Fail(p, "DB", <<>>, TRUE)
    /\ url' = [url EXCEPT ![p] = <<>>]
    /\ split' = [split EXCEPT ![p] = NoSplit]
    /\ UNCHANGED <<dbVars, dir, migrated, files, pos, stmts, ghostVars>>

\* get_migrated: SELECT migration FROM <table> ORDER BY id; a missing table
\* (42P01) reads as the empty history.
GetMigrated(p) ==
    /\ pc[p] = "get_migrated"
    /\ \E o \in QueryOutcomes(tableExists) :
        /\ Did(p, "SELECT", "url", <<>>, o)
        /\ IF MigratedOf(o, TableRows).ok
           THEN /\ migrated' = [migrated EXCEPT ![p] = MigratedOf(o, TableRows).rows]
                /\ Goto(p, "begin")
                /\ UNCHANGED <<result, tx, fault>>
           ELSE /\ Fail(p, "CurrentMigrations", <<>>, TRUE)
                /\ UNCHANGED migrated
    /\ UNCHANGED <<dbVars, url, dir, files, pos, stmts, split, ghostVars>>

\* let mut tx = db.begin().await?;
Begin(p) ==
    /\ pc[p] = "begin"
    /\ Sent(p, "BEGIN", <<>>)
    /\ \/ /\ tx' = [tx EXCEPT ![p] = [NoTx EXCEPT !.open = TRUE]]
          /\ Goto(p, IF NeedsTable(migrated[p]) THEN "create_table" ELSE "collect")
          /\ UNCHANGED <<result, fault>>
       \/ Fail(p, "DB", <<>>, TRUE)
    /\ UNCHANGED <<dbVars, url, dir, migrated, files, pos, conn, split,
                   ghostVars>>

\* A table creation that is sent outside the transaction.
CreateTableOutsideTx(p) ==
    /\ pc[p] = "create_table"
    /\ Sent(p, "CREATE TABLE", <<>>)
    /\ \/ /\ tableExists' = TRUE
          /\ Goto(p, "collect")
          /\ UNCHANGED <<result, fault, tx>>
       \/ /\ Fail(p, "DB", <<>>, TRUE)
          /\ UNCHANGED tableExists
    /\ UNCHANGED <<dbExists, history, applied, url, dir, migrated, files, pos, conn, split,
                   ghostVars>>

\* if migrated.is_empty() { CREATE TABLE IF NOT EXISTS <table> (...) }
CreateTable(p) ==
    /\ pc[p] = "create_table"
    /\ ~PendingTable(p)
    /\ Sent(p, "CREATE TABLE", <<>>)
    /\ \/ /\ tx' = [tx EXCEPT ![p].created = ~tableExists]
          /\ Goto(p, "collect")
          /\ UNCHANGED <<result, fault>>
       \/ Fail(p, "DB", <<>>, TRUE)
    /\ UNCHANGED <<dbVars, url, dir, migrated, files, pos, conn, split,
                   ghostVars>>

\* files = dir.files().iter().collect(); the cardinality check; files.sort_by.
Collect(p) ==
    /\ pc[p] = "collect"
    /\ IF TooManyMigrated(migrated[p], dir[p])
       THEN /\ Fail(p, "DeletedMigrations", <<>>, FALSE)
            /\ files' = [files EXCEPT ![p] = dir[p]]
       ELSE /\ files' = [files EXCEPT ![p] = SortFiles(dir[p])]
            /\ Goto(p, "walk")
            /\ UNCHANGED <<result, tx, fault>>
    /\ UNCHANGED <<dbVars, url, dir, migrated, pos, stmts, conn, split,
                   ghostVars>>

\* A loop that validates the content of every candidate, recorded or not.
WalkValidatesAll(p) ==
    /\ pc[p] = "walk"
    /\ IF pos[p] >= Len(files[p])
       THEN /\ Goto(p, "commit")
            /\ UNCHANGED <<result, tx, fault, pos>>
       ELSE LET f == files[p][pos[p] + 1] IN
            IF ~IsUtf8(f.path)
            THEN /\ Fail(p, "InvalidMigrationPath", f.path, FALSE)
                 /\ UNCHANGED pos
            ELSE IF ~IsUtf8(f.content)
            THEN /\ Fail(p, "InvalidMigrationContent", f.path, FALSE)
                 /\ UNCHANGED pos
            ELSE IF AlreadyRun(pos[p], migrated[p])
            THEN IF Mismatch(migrated[p], pos[p], f.path)
                 THEN /\ Fail(p, "MissingMigration", f.path, FALSE)
                      /\ UNCHANGED pos
                 ELSE /\ pos' = [pos EXCEPT ![p] = @ + 1]
                      /\ UNCHANGED <<pc, result, tx, fault>>
            ELSE /\ Goto(p, "execute")
                 /\ UNCHANGED <<result, tx, fault, pos>>
    /\ UNCHANGED <<dbVars, url, dir, migrated, files, stmts, conn, split,
                   ghostVars>>

\* One turn of `for (pos, f) in files.iter().enumerate()` up to the first
\* await: the path check, the comparison with migrated[pos], the content check.
Walk(p) ==
    /\ pc[p] = "walk"
    /\ IF pos[p] >= Len(files[p])
       THEN /\ Goto(p, "commit")
            /\ UNCHANGED <<result, tx, fault, pos>>
       ELSE LET f == files[p][pos[p] + 1] IN
            IF ~IsUtf8(f.path)
            THEN /\ Fail(p, "InvalidMigrationPath", f.path, FALSE)
                 /\ UNCHANGED pos
            ELSE IF AlreadyRun(pos[p], migrated[p])
            THEN IF Mismatch(migrated[p], pos[p], f.path)
                 THEN /\ Fail(p, "MissingMigration", f.path, FALSE)
                      /\ UNCHANGED pos
                 ELSE /\ pos' = [pos EXCEPT ![p] = @ + 1]
                      /\ UNCHANGED <<pc, result, tx, fault>>
            ELSE IF ~IsUtf8(f.content)
            THEN /\ Fail(p, "InvalidMigrationContent", f.path, FALSE)
                 /\ UNCHANGED pos
            ELSE /\ Goto(p, "execute")
                 /\ UNCHANGED <<result, tx, fault, pos>>
    /\ UNCHANGED <<dbVars, url, dir, migrated, files, stmts, conn, split,
                   ghostVars>>

\* A migration body that is executed outside the transaction.
ExecuteOutsideTx(p) ==
    /\ pc[p] = "execute"
    /\ LET f == files[p][pos[p] + 1] IN
        /\ Sent(p, "BODY", f.path)
        /\ \/ /\ applied' = [applied EXCEPT ![f.path] = @ + 1]
              /\ Goto(p, "insert")
              /\ UNCHANGED <<result, fault, tx>>
           \/ /\ Fail(p, "DB", <<>>, TRUE)
              /\ UNCHANGED applied
    /\ UNCHANGED <<dbExists, tableExists, history, url, dir, migrated, files, pos, conn, split,
                   ghostVars>>

\* tx.execute(content).await?;
Execute(p) ==
    /\ pc[p] = "execute"
    /\ LET f == files[p][pos[p] + 1] IN
        /\ Sent(p, "BODY", f.path)
        /\ \/ /\ tx' = [tx EXCEPT ![p].bodies = Append(@, f.path)]
              /\ Goto(p, "insert")
              /\ UNCHANGED <<result, fault>>
           \/ Fail(p, "DB", <<>>, TRUE)
    /\ UNCHANGED <<dbVars, url, dir, migrated, files, pos, conn, split,
                   ghostVars>>

\* A column without UNIQUE: only a missing table refuses the row.
InsertRefusedNoUnique(p, path) == ~(tableExists \/ tx[p].created)

\* The row violates UNIQUE(migration), or there is no table to insert into.
InsertRefused(p, path) ==
    \/ path \in Range(history) \cup Range(tx[p].rows)
    \/ ~(tableExists \/ tx[p].created)

\* INSERT INTO <table> (migration) VALUES ($1), bound to path; the loop's
\* next turn follows.
Insert(p) ==
    /\ pc[p] = "insert"
    /\ LET f == files[p][pos[p] + 1] IN
        /\ ~PendingRow(p, f.path)
        /\ Sent(p, "INSERT", f.path)
        /\ \/ /\ ~InsertRefused(p, f.path)
              /\ tx' = [tx EXCEPT ![p].rows = Append(@, f.path)]
              /\ pos' = [pos EXCEPT ![p] = @ + 1]
              /\ Goto(p, "walk")
              /\ UNCHANGED <<result, fault>>
           \/ /\ Fail(p, "DB", <<>>, ~InsertRefused(p, f.path))
              /\ UNCHANGED pos
    /\ UNCHANGED <<dbVars, url, dir, migrated, files, conn, split,
                   ghostVars>>

\* tx.commit().await?; Ok(())
Commit(p) ==
    /\ pc[p] = "commit"
    /\ Sent(p, "COMMIT", <<>>)
    /\ \/ /\ history' = history \o tx[p].rows
          /\ applied' = [q \in Paths |->
                            applied[q] + Cardinality({i \in 1..Len(tx[p].bodies) :
                                                         tx[p].bodies[i] = q})]
          /\ tableExists' = (tableExists \/ tx[p].created)
          /\ tx' = [tx EXCEPT ![p] = [NoTx EXCEPT !.ended = "commit"]]
          /\ result' = [result EXCEPT ![p] = OkRes]
          /\ Goto(p, "done")
          /\ UNCHANGED fault
       \/ /\ Fail(p, "DB", <<>>, TRUE)
          /\ UNCHANGED <<tableExists, history, applied>>
    /\ UNCHANGED <<dbExists, url, dir, migrated, files, pos, conn, split,
                   ghostVars>>

\* migrate has returned to its caller: the locals of the call are gone.
Return(p) ==
    /\ pc[p] = "done"
    /\ last' = [ok |-> result[p].kind = "Ok",
                set |-> PathsOf(dir[p]),
                bodies |-> Len(Bodies(stmts[p]))]
    /\ prev' = NoPrev
    /\ url' = [url EXCEPT ![p] = <<>>]
    /\ dir' = [dir EXCEPT ![p] = <<>>]
    /\ migrated' = [migrated EXCEPT ![p] = <<>>]
    /\ files' = [files EXCEPT ![p] = <<>>]
    /\ pos' = [pos EXCEPT ![p] = 0]
    /\ tx' = [tx EXCEPT ![p] = NoTx]
    /\ result' = [result EXCEPT ![p] = NoRes]
    /\ stmts' = [stmts EXCEPT ![p] = <<>>]
    /\ conn' = [conn EXCEPT ![p] = <<>>]
    /\ split' = [split EXCEPT ![p] = NoSplit]
    /\ fault' = [fault EXCEPT ![p] = FALSE]
    /\ pre' = [pre EXCEPT ![p] = Committed]
    /\ race' = [race EXCEPT ![p] = "no"]
    /\ Goto(p, "idle")
    /\ UNCHANGED <<dbVars, appendOnly>>

\* The CREATE TABLE is sent while another transaction holds the table's
\* name: the statement waits.
CreateTableWait(p) ==
    /\ pc[p] = "create_table"
    /\ PendingTable(p)
    /\ Sent(p, "CREATE TABLE", <<>>)
    /\ Goto(p, "create_table_wait")
    /\ UNCHANGED <<dbVars, url, dir, migrated, files, pos, tx, result, conn, split,
                   fault, ghostVars>>

\* The other transaction has ended: if it committed the table the waiting
\* CREATE TABLE fails on the catalog's unique index, if it rolled back the
\* statement creates the table.
CreateTableResume(p) ==
    /\ pc[p] = "create_table_wait"
    /\ ~PendingTable(p)
    /\ IF tableExists
       THEN Fail(p, "DB", <<>>, FALSE)
       ELSE /\ tx' = [tx EXCEPT ![p].created = TRUE]
            /\ Goto(p, "collect")
            /\ UNCHANGED <<result, fault>>
    /\ UNCHANGED <<dbVars, url, dir, migrated, files, pos, stmts, conn, split,
                   ghostVars>>

\* The INSERT is sent while another transaction holds the identity: the
\* statement waits.
InsertWait(p) ==
    /\ pc[p] = "insert"
    /\ LET f == files[p][pos[p] + 1] IN
        /\ PendingRow(p, f.path)
        /\ Sent(p, "INSERT", f.path)
    /\ race' = [race EXCEPT ![p] = "waiting"]
    /\ Goto(p, "insert_wait")
    /\ UNCHANGED <<dbVars, url, dir, migrated, files, pos, tx, result, conn, split,
                   fault, pre, last, prev, appendOnly>>

\* The other transaction has ended: if it committed the identity the
\* waiting INSERT violates UNIQUE(migration), if it rolled back the row is
\* inserted.
InsertResume(p) ==
    /\ pc[p] = "insert_wait"
    /\ LET f == files[p][pos[p] + 1] IN
        /\ ~PendingRow(p, f.path)
        /\ IF InsertRefused(p, f.path)
           THEN /\ Fail(p, "DB", <<>>, FALSE)
                /\ race' = [race EXCEPT ![p] = "lost"]
                /\ UNCHANGED pos
           ELSE /\ tx' = [tx EXCEPT ![p].rows = Append(@, f.path)]
                /\ pos' = [pos EXCEPT ![p] = @ + 1]
                /\ race' = [race EXCEPT ![p] = "won"]
                /\ Goto(p, "walk")
                /\ UNCHANGED <<result, fault>>
    /\ UNCHANGED <<dbVars, url, dir, migrated, files, stmts, conn, split,
                   pre, last, prev, appendOnly>>

Step(p) ==
    \/ Start(p)
    \/ FirstConnect(p)
    \/ AdminConnect(p)
    \/ CreateDatabase(p)
    \/ Connect(p)
    \/ GetMigrated(p)
    \/ Begin(p)
    \/ CreateTable(p)
    \/ Collect(p)
    \/ Walk(p)
    \/ Execute(p)
    \/ Insert(p)
    \/ Commit(p)
    \/ Return(p)

\* The calls of one caller, one after another.
Next == \E p \in Serial : Step(p)

Spec == Init /\ [][Next]_vars

\* ------------------------------------------------------ concurrent calls
\* The urls that name a database.
ConcUrls == { u \in URLs : BaseAndDb(u).ok }

\* The directories two concurrent callers are given: "0"; "0" and "1";
\* "0" and "01" whose content is not UTF-8; "0" and a path that is not UTF-8.
ConcDirs ==
    { <<File(<<48>>, Sql)>>,
      <<File(<<49>>, Sql), File(<<48>>, Sql)>>,
      <<File(<<48>>, Sql), File(<<48, 49>>, NotText)>>,
      <<File(<<48, 255>>, Sql), File(<<48>>, Sql)>> }

\* Two callers are given the same url and the same directory.
StartConc(p) ==
    StartCall(p, ConcUrls,
              { d \in ConcDirs : \A q \in Others(p) : pc[q] # "idle" => dir[q] = d })

\* The database before the two calls: missing; empty; with an empty
\* bookkeeping table; with migration "0" applied and recorded.
InitConc ==
    /\ \/ /\ dbExists = FALSE
          /\ tableExists = FALSE
          /\ history = <<>>
          /\ applied = [q \in Paths |-> 0]
       \/ /\ dbExists = TRUE
          /\ tableExists \in BOOLEAN
          /\ history = <<>>
          /\ applied = [q \in Paths |-> 0]
       \/ /\ dbExists = TRUE
          /\ tableExists = TRUE
          /\ history = << <<48>> >>
          /\ applied = [q \in Paths |-> IF q = <<48>> THEN 1 ELSE 0]
    /\ pc = [p \in Callers |-> "idle"]
    /\ url = [p \in Callers |-> <<>>]
    /\ dir = [p \in Callers |-> <<>>]
    /\ migrated = [p \in Callers |-> <<>>]
    /\ files = [p \in Callers |-> <<>>]
    /\ pos = [p \in Callers |-> 0]
    /\ tx = [p \in Callers |-> NoTx]
    /\ result = [p \in Callers |-> NoRes]
    /\ stmts = [p \in Callers |-> <<>>]
    /\ conn = [p \in Callers |-> <<>>]
    /\ split = [p \in Callers |-> NoSplit]
    /\ fault = [p \in Callers |-> FALSE]
    /\ pre = [p \in Callers |-> Committed]
    /\ last = NoLast
    /\ prev = NoPrev
    /\ appendOnly = TRUE
    /\ race = [p \in Callers |-> "no"]

StepConc(p) ==
    \/ StartConc(p)
    \/ FirstConnect(p)
    \/ AdminConnect(p)
    \/ CreateDatabase(p)
    \/ Connect(p)
    \/ GetMigrated(p)
    \/ Begin(p)
    \/ CreateTable(p)
    \/ CreateTableWait(p)
    \/ CreateTableResume(p)
    \/ Collect(p)
    \/ Walk(p)
    \/ Execute(p)
    \/ Insert(p)
    \/ InsertWait(p)
    \/ InsertResume(p)
    \/ Commit(p)

\* Two callers, their steps interleaved in every order.
NextConc == \E p \in Callers : StepConc(p)

SpecConc == InitConc /\ [][NextConc]_vars

\* Each caller's task is scheduled again and again while it can run.
FairConc == SpecConc /\ \A p \in Callers : WF_vars(StepConc(p))

\* -------------------------------------------------------------- claims
Done(p) == pc[p] = "done"
Succeeded(p) == Done(p) /\ result[p] = OkRes
Failed(p) == Done(p) /\ result[p] # OkRes

\* The call follows a successful call that had the same candidate set.
Repeated(p) == pc[p] # "idle" /\ prev.ok /\ prev.same

\* The candidates of the call that the history at its start does not hold,
\* in ascending order.
NotYetRecorded(p) ==
    LET S == Ascending(PathsOf(dir[p]))
    IN SelectSeq(S, LAMBDA q : q \notin Range(pre[p].history))

AppliedOnce(before, qs) ==
    [q \in Paths |-> before[q] + (IF q \in Range(qs) THEN 1 ELSE 0)]

\* C1: a successful call executes the body of every candidate that was not
\* yet recorded exactly once and inserts one history row for each; a call
\* that repeats a successful call with the same candidate set executes no
\* body, inserts no row, leaves the history as it was and, unless the
\* database refuses a step, succeeds.
IdempotentMigrate ==
    \A p \in Serial :
        /\ Succeeded(p) =>
            /\ ArgsOf(Bodies(stmts[p])) = NotYetRecorded(p)
            /\ ArgsOf(Inserts(stmts[p])) = NotYetRecorded(p)
            /\ history = pre[p].history \o NotYetRecorded(p)
            /\ applied = AppliedOnce(pre[p].applied, NotYetRecorded(p))
        /\ Repeated(p) =>
            /\ Bodies(stmts[p]) = <<>>
            /\ Inserts(stmts[p]) = <<>>
            /\ history = pre[p].history
            /\ applied = pre[p].applied
            /\ (Done(p) /\ ~fault[p] => result[p] = OkRes)

\* A second call with the same two or more candidates has succeeded after a
\* first call that executed them.
IdempotentMigrateWitness ==
    \E p \in Serial :
        /\ Succeeded(p) /\ Repeated(p)
        /\ prev.bodies >= 2
        /\ Len(dir[p]) >= 2

\* C2: when a call fails after its transaction was begun, the committed
\* state (history rows, effects of migration bodies, existence of the
\* bookkeeping table) is what it was when the call started.
AtomicMigrate ==
    \A p \in Serial :
        Failed(p) /\ stmts[p] # <<>> => Committed = pre[p]

\* A call that created the table, executed a body and inserted its row has
\* failed at the commit.
AtomicMigrateWitness ==
    \E p \in Serial :
        /\ Failed(p)
        /\ ~pre[p].tableExists
        /\ Len(Inserts(stmts[p])) >= 1
        /\ stmts[p][Len(stmts[p])].op = "COMMIT"

\* The candidate set the committed history is measured against: that of
\* the call in progress, or of the latest call that returned.
CandidateSet(p) == IF pc[p] = "idle" THEN last.set ELSE PathsOf(dir[p])

NoDuplicates(s) == \A i, j \in 1..Len(s) : s[i] = s[j] => i = j

\* C3: after every successful call the committed history, ordered by id,
\* equals the first Len(history) identities of the call's candidate set in
\* ascending order; while the candidate sets only grow by appending, the
\* same holds in every state, failed calls included.
PrefixInvariant ==
    \A p \in Serial :
        /\ Succeeded(p) => IsPrefix(history, Ascending(PathsOf(dir[p])))
        /\ appendOnly => IsPrefix(history, Ascending(CandidateSet(p)))

\* A successful call has appended a candidate to a history recorded by an
\* earlier call whose candidate set was smaller.
PrefixInvariantWitness ==
    \E p \in Serial :
        /\ Succeeded(p) /\ appendOnly
        /\ prev.ok /\ ~prev.same
        /\ pre[p].history # <<>>
        /\ Len(history) > Len(pre[p].history)
        /\ Len(history) >= 2

\* C5: whatever the order of the input collection, the bodies a call
\* executes and the rows it inserts are those of the candidates past the
\* history it read, in ascending identity order, each insert right after
\* the body of the same candidate and before the next body.
ExpectedWork(p) ==
    LET S == Ascending(PathsOf(dir[p]))
        n == Len(migrated[p])
    IN IF n > Len(S) THEN <<>>
       ELSE [i \in 1..(2 * (Len(S) - n)) |->
                IF i % 2 = 1 THEN Stmt("BODY", S[n + (i + 1) \div 2])
                ELSE Stmt("INSERT", S[n + i \div 2])]

Work(t) == SelectSeq(t, LAMBDA s : s.op \in {"BODY", "INSERT"})

OrderingDeterminism ==
    \A p \in Serial :
        /\ IsPrefix(Work(stmts[p]), ExpectedWork(p))
        /\ Succeeded(p) =>
            /\ Work(stmts[p]) = ExpectedWork(p)
            /\ history = migrated[p] \o ArgsOf(Inserts(stmts[p]))

\* A successful call whose input collection was not in ascending order has
\* executed two or more bodies.
OrderingDeterminismWitness ==
    \E p \in Serial :
        /\ Succeeded(p)
        /\ Len(Bodies(stmts[p])) >= 2
        /\ \E i, j \in 1..Len(dir[p]) : i < j /\ StrLess(dir[p][j].path, dir[p][i].path)

\* C6: over serial calls with append-only candidate sets the effect of
\* every migration body is committed at most once and every identity has
\* at most one history row; after a successful call every candidate of the
\* call is committed exactly once; a successful call executes exactly the
\* candidates absent from the committed history, also after a failed call.
ExactlyOnce ==
    \A p \in Serial :
        appendOnly =>
            /\ \A q \in Paths : applied[q] <= 1
            /\ NoDuplicates(history)
            /\ Succeeded(p) =>
                /\ \A q \in PathsOf(dir[p]) :
                    /\ applied[q] = 1
                    /\ Cardinality({i \in 1..Len(history) : history[i] = q}) = 1
                /\ Range(ArgsOf(Bodies(stmts[p]))) = PathsOf(dir[p]) \ Range(pre[p].history)
                /\ NoDuplicates(ArgsOf(Bodies(stmts[p])))

\* A call has succeeded and executed a body right after a call that had
\* executed a body and failed, on top of a history an earlier call recorded.
ExactlyOnceWitness ==
    \E p \in Serial :
        /\ Succeeded(p) /\ appendOnly
        /\ ~prev.ok /\ prev.bodies >= 1
        /\ pre[p].history # <<>>
        /\ Len(Bodies(stmts[p])) >= 1

\* The transaction of the call was begun and the database refused no step.
Reconciled(p) == Done(p) /\ ~fault[p] /\ stmts[p] # <<>>

\* The positions at which the history read and the sorted candidates differ.
Mismatches(H, S) == { i \in 1..Len(H) : i <= Len(S) /\ H[i] # S[i] }

Least(I) == CHOOSE i \in I : \A j \in I : i <= j

CommitSent(p) == \E i \in 1..Len(stmts[p]) : stmts[p][i].op = "COMMIT"

\* C4 as stated: the commit is reached only if the history read is a
\* prefix of the sorted candidates; a longer history fails with
\* DeletedMigrations; otherwise the smallest position that differs fails
\* with MissingMigration naming the candidate there; both failures come
\* before any body or insert.
ReconciliationAsStated ==
    \A p \in Serial :
        LET H == migrated[p]
            S == Ascending(PathsOf(dir[p]))
        IN /\ CommitSent(p) => IsPrefix(H, S)
           /\ Reconciled(p) /\ Len(H) > Len(S) =>
                /\ result[p] = Res("DeletedMigrations", <<>>)
                /\ Work(stmts[p]) = <<>>
           /\ Reconciled(p) /\ Len(H) <= Len(S) /\ Mismatches(H, S) # {} =>
                /\ result[p] = Res("MissingMigration", S[Least(Mismatches(H, S))])
                /\ Work(stmts[p]) = <<>>

\* C4, amended: as stated, except that a candidate whose path is not UTF-8
\* at or before the smallest differing position makes the call fail with
\* InvalidMigrationPath naming the first such candidate.
Reconciliation ==
    \A p \in Serial :
        LET H == migrated[p]
            S == Ascending(PathsOf(dir[p]))
        IN /\ CommitSent(p) => IsPrefix(H, S)
           /\ Reconciled(p) /\ Len(H) > Len(S) =>
                /\ result[p] = Res("DeletedMigrations", <<>>)
                /\ Work(stmts[p]) = <<>>
           /\ Reconciled(p) /\ Len(H) <= Len(S) /\ Mismatches(H, S) # {} =>
                LET k == Least(Mismatches(H, S))
                    bad == { i \in 1..k : ~IsUtf8(S[i]) }
                IN /\ result[p] = IF bad = {}
                                  THEN Res("MissingMigration", S[k])
                                  ELSE Res("InvalidMigrationPath", S[Least(bad)])
                   /\ Work(stmts[p]) = <<>>

\* A call has failed with MissingMigration at a position past the first,
\* and another with DeletedMigrations.
ReconciliationWitness ==
    \E p \in Serial :
        /\ Reconciled(p)
        /\ result[p].kind = "MissingMigration"
        /\ Len(migrated[p]) <= Len(dir[p])
        /\ Least(Mismatches(migrated[p], Ascending(PathsOf(dir[p])))) >= 2

\* C7 as stated: a history longer than the candidate set fails with
\* DeletedMigrations before any transaction is begun or statement sent.
DeletionBeforeTransaction ==
    \A p \in Serial :
        Done(p) /\ Len(migrated[p]) > Len(dir[p]) =>
            /\ ~fault[p] => result[p] = Res("DeletedMigrations", <<>>)
            /\ result[p].kind = "DeletedMigrations" => stmts[p] = <<>>

\* C7, amended: a history longer than the candidate set fails with
\* DeletedMigrations after the transaction was begun: BEGIN is the one
\* statement sent, the transaction is dropped uncommitted and the committed
\* state is unchanged; no other call fails with DeletedMigrations.
DeletionDetection ==
    \A p \in Serial :
        /\ Done(p) /\ Len(migrated[p]) > Len(dir[p]) =>
            /\ ~fault[p] => result[p] = Res("DeletedMigrations", <<>>)
            /\ result[p].kind = "DeletedMigrations" =>
                /\ stmts[p] = <<Stmt("BEGIN", <<>>)>>
                /\ ~tx[p].open
                /\ Committed = pre[p]
        /\ Done(p) /\ result[p].kind = "DeletedMigrations" => Len(migrated[p]) > Len(dir[p])

\* A call with one candidate has failed with DeletedMigrations against a
\* history of two.
DeletionDetectionWitness ==
    \E p \in Serial :
        /\ Done(p) /\ result[p].kind = "DeletedMigrations"
        /\ Len(migrated[p]) = 2 /\ Len(dir[p]) = 1

\* C8 as stated: a call repeating a successful call with the same candidate
\* set sends no statement after the history read and succeeds.
SecondCallSendsNothing ==
    \A p \in Serial :
        Repeated(p) =>
            /\ stmts[p] = <<>>
            /\ (Done(p) /\ ~fault[p] => result[p] = OkRes)

\* C8, amended: such a call succeeds and leaves the committed state
\* unchanged; it sends no body and no insert, but it begins and commits an
\* empty transaction, and with an empty candidate set it also sends the
\* CREATE TABLE IF NOT EXISTS, which finds the table in place.
SecondCallChangesNothing ==
    \A p \in Serial :
        Repeated(p) =>
            /\ Committed = pre[p]
            /\ (Done(p) /\ ~fault[p] => result[p] = OkRes)
            /\ Succeeded(p) =>
                stmts[p] = IF dir[p] = <<>>
                           THEN <<Stmt("BEGIN", <<>>), Stmt("CREATE TABLE", <<>>),
                                  Stmt("COMMIT", <<>>)>>
                           ELSE <<Stmt("BEGIN", <<>>), Stmt("COMMIT", <<>>)>>

\* A call repeating a successful call that executed bodies has succeeded.
SecondCallChangesNothingWitness ==
    \E p \in Serial :
        /\ Succeeded(p) /\ Repeated(p)
        /\ prev.bodies >= 1
        /\ dir[p] # <<>>

\* C9 as stated: an empty candidate set against a non-empty history
\* succeeds.
EmptySetOldHistorySucceeds ==
    \A p \in Serial :
        Done(p) /\ ~fault[p] /\ dir[p] = <<>> /\ migrated[p] # <<>> => result[p] = OkRes

\* C9, amended: an empty candidate set against a non-empty history fails
\* with DeletedMigrations.
EmptySetOldHistoryFails ==
    \A p \in Serial :
        Done(p) /\ ~fault[p] /\ dir[p] = <<>> /\ migrated[p] # <<>> =>
            result[p] = Res("DeletedMigrations", <<>>)

\* A call without candidates has returned after reading a non-empty history.
EmptySetOldHistoryWitness ==
    \E p \in Serial :
        Done(p) /\ ~fault[p] /\ dir[p] = <<>> /\ migrated[p] # <<>>

\* The call has returned and the database existed or was created by it.
Provisioned(p) == Done(p) /\ result[p].kind # "InvalidURL"

\* C10 as stated: an empty candidate set against an empty history succeeds
\* without sending a statement and without creating the bookkeeping table.
EmptySetEmptyHistoryNoOp ==
    \A p \in Serial :
        Provisioned(p) /\ ~fault[p] /\ dir[p] = <<>> /\ pre[p].history = <<>> =>
            /\ result[p] = OkRes
            /\ stmts[p] = <<>>
            /\ Committed = pre[p]

\* C10, amended: such a call succeeds, executes no body and inserts no
\* row, and leaves history and effects unchanged, but it begins a
\* transaction, sends CREATE TABLE IF NOT EXISTS and commits, so the
\* bookkeeping table exists afterwards.
EmptySetEmptyHistoryCreatesTable ==
    \A p \in Serial :
        Provisioned(p) /\ ~fault[p] /\ dir[p] = <<>> /\ pre[p].history = <<>> =>
            /\ result[p] = OkRes
            /\ stmts[p] = <<Stmt("BEGIN", <<>>), Stmt("CREATE TABLE", <<>>),
                            Stmt("COMMIT", <<>>)>>
            /\ history = <<>>
            /\ applied = pre[p].applied
            /\ tableExists

\* A call without candidates has succeeded on a database that had no
\* bookkeeping table.
EmptySetEmptyHistoryWitness ==
    \E p \in Serial :
        /\ Succeeded(p) /\ dir[p] = <<>>
        /\ ~pre[p].tableExists /\ pre[p].history = <<>>

\* ---------------------------------------------------------------------
\* Provisioning: maybe_make_db
\* ---------------------------------------------------------------------

\* The outcome of the call's first connection attempt, once it is made.
Attempted(p) == Len(conn[p]) >= 1
FirstOutcome(p) == conn[p][1].out

\* The events of the call on the administrative connection.
AdminEvents(p) == { i \in 1..Len(conn[p]) : conn[p][i].to = "admin" }

\* The connects of the call to its own url.
UrlConnects(p) ==
    { i \in 1..Len(conn[p]) : conn[p][i].op = "connect" /\ conn[p][i].to = "url" }

\* The call is on the path that creates the database: it is about to split
\* the url, or it has split it (and failed there or went on to <base>/postgres).
Creating(p) ==
    \/ pc[p] \in {"admin_connect", "create_db"}
    \/ AdminEvents(p) # {}
    \/ result[p].kind = "InvalidURL"

ProvisionerError(p) ==
    /\ Done(p)
    /\ \/ result[p].kind \in {"ExistingConnectError", "InvalidURL", "BaseConnect"}
       \/ \E i \in AdminEvents(p) : conn[p][i].op = "CREATE DATABASE" /\ conn[p][i].out # "ok"

\* C11: a first connect that succeeds opens no administrative connection and
\* issues no CREATE DATABASE; the call takes the creating path (through
\* "<base>/postgres") exactly when the first connect failed with a database
\* error of code 3D000; every other failure of the first connect returns
\* ExistingConnectError; a failed administrative connect returns BaseConnect
\* carrying the base url; a failed CREATE DATABASE ends the call with an
\* error; once the provisioner has returned success the database exists; and
\* after a provisioner error the call opens no further connection.
ProvisionerOutcomes ==
    \A p \in Callers :
        /\ (Attempted(p) /\ FirstOutcome(p) = "ok") => AdminEvents(p) = {}
        /\ (Attempted(p) /\ pc[p] # "first_connect") =>
               (Creating(p) <=> FirstOutcome(p) = "3D000")
        /\ (Attempted(p) /\ FirstOutcome(p) \in {"42P01", "dbcode", "nocode", "other"}) =>
               /\ Done(p)
               /\ result[p].kind = "ExistingConnectError"
               /\ Len(conn[p]) = 1
        /\ \A i \in AdminEvents(p) :
               /\ conn[p][i].op = "connect" =>
                      /\ i = 2
                      /\ pc[p] \in {"create_db", "done"} /\ split[p].ok =>
                             /\ conn[p][i].arg = split[p].base \o SlashPostgres
                             /\ split[p] = BaseAndDb(url[p])
               /\ (conn[p][i].op = "connect" /\ conn[p][i].out # "ok") =>
                      /\ Done(p)
                      /\ result[p] = Res("BaseConnect", split[p].base)
                      /\ Len(conn[p]) = i
               /\ conn[p][i].op = "CREATE DATABASE" =>
                      /\ i = 3
                      /\ conn[p][2].out = "ok"
                      /\ split[p].ok => conn[p][i].arg = split[p].db
               /\ (conn[p][i].op = "CREATE DATABASE" /\ conn[p][i].out # "ok") =>
                      /\ Done(p)
                      /\ Failed(p)
                      /\ Len(conn[p]) = i
        /\ pc[p] \in {"connect", "get_migrated", "begin", "create_table", "collect",
                      "walk", "execute", "insert", "commit"} => dbExists
        /\ Succeeded(p) => dbExists
        /\ ProvisionerError(p) =>
               /\ Cardinality(UrlConnects(p)) = 1
               /\ stmts[p] = <<>>
               /\ tx[p] = NoTx

\* A call that found no database (3D000), created it through the
\* administrative connection, and went on to succeed.
ProvisionerOutcomesWitness ==
    \E p \in Callers :
        /\ Succeeded(p)
        /\ Len(conn[p]) >= 4
        /\ FirstOutcome(p) = "3D000"
        /\ conn[p][3] = Ev("CREATE DATABASE", "admin", <<100>>, "ok")
        /\ Cardinality(UrlConnects(p)) = 2

\* ---------------------------------------------------------------------
\* base_and_db over the urls of the form scheme://[host]/<name>[?query]
\* ---------------------------------------------------------------------

\* Calls of migrate with such a url (and a url without '/'), up to the end
\* of maybe_make_db.
StartUrl(p) == StartCall(p, UrlForms \cup URLs, { <<>> })

NextUrl ==
    \E p \in Serial : StartUrl(p) \/ FirstConnect(p) \/ AdminConnect(p) \/ CreateDatabase(p)

SpecUrl == Init /\ [][NextUrl]_vars

\* C12: for every url scheme://[host]/<name>[?query], base_and_db returns
\* the base scheme://[host] (everything before the '/' that precedes the
\* name) and the database name <name>, the query stripped, also when the
\* query holds '/' and when the name is empty.
UrlSplitting ==
    \A p \in Callers : \A h \in Hosts, n \in Names, q \in Queries :
        (url[p] = UrlForm(h, n, q) /\ pc[p] \in {"create_db", "done"} /\ Attempted(p)
            /\ FirstOutcome(p) = "3D000") =>
            split[p] = [ok |-> TRUE, base |-> Scheme \o h, db |-> n]

\* ---------------------------------------------------------------------
\* Urls without a '/'
\* ---------------------------------------------------------------------

NoSlash(u) == \A i \in 1..Len(u) : u[i] # Slash

\* The call was given a url without '/' and has made its first connect.
MalformedCall(p) ==
    /\ url[p] # <<>>
    /\ NoSlash(url[p])
    /\ Attempted(p)
    /\ pc[p] # "first_connect"

\* C13 as stated: a call whose url holds no '/' never gets past the split
\* and ends with InvalidURL carrying the url, whatever the first connect
\* returned.
MalformedUrlAlwaysInvalid ==
    \A p \in Callers :
        MalformedCall(p) =>
            \/ pc[p] = "admin_connect"
            \/ Done(p) /\ result[p] = Res("InvalidURL", url[p])

\* C13, amended: a call whose url holds no '/' ends with InvalidURL carrying
\* the url exactly when its first connect failed with a database error of
\* code 3D000, and then it opened no other connection and sent nothing; when
\* the first connect succeeded the call goes on to connect and migrate;
\* after any other failure it ends with ExistingConnectError.
MalformedUrl ==
    \A p \in Callers :
        /\ MalformedCall(p) =>
               /\ FirstOutcome(p) = "3D000" =>
                      \/ pc[p] = "admin_connect" /\ result[p] = NoRes
                      \/ /\ Done(p)
                         /\ result[p] = Res("InvalidURL", url[p])
                         /\ Len(conn[p]) = 1
                         /\ stmts[p] = <<>>
                         /\ ~fault[p]
               /\ FirstOutcome(p) = "ok" =>
                      pc[p] = "connect" /\ result[p] = NoRes
               /\ FirstOutcome(p) \notin {"3D000", "ok"} =>
                      Done(p) /\ result[p].kind = "ExistingConnectError"
        /\ result[p].kind = "InvalidURL" =>
               /\ MalformedCall(p)
               /\ result[p].arg = url[p]
               /\ FirstOutcome(p) = "3D000"

\* A call with the url "d" whose first connect failed with 3D000.
MalformedUrlWitness ==
    \E p \in Callers :
        /\ MalformedCall(p)
        /\ FirstOutcome(p) = "3D000"
        /\ result[p] = Res("InvalidURL", <<100>>)

\* ---------------------------------------------------------------------
\* The transaction of a call
\* ---------------------------------------------------------------------

\* The call is between db.begin() and its return.
InTransaction(p) ==
    pc[p] \in {"create_table", "collect", "walk", "execute", "insert", "commit"}

\* C15: once the transaction has been begun it stays open until migrate
\* returns, and at the return it is closed: committed exactly when migrate
\* returns success, rolled back on DeletedMigrations, InvalidMigrationPath,
\* MissingMigration, InvalidMigrationContent and on every database error of
\* the table creation, a body, an insert or the commit.
TransactionClosed ==
    \A p \in Callers :
        /\ InTransaction(p) => tx[p].open /\ stmts[p][1] = Stmt("BEGIN", <<>>)
        /\ Done(p) =>
               /\ ~tx[p].open
               /\ tx[p].ended = "commit" <=> Succeeded(p)
               /\ result[p].kind \in {"DeletedMigrations", "InvalidMigrationPath",
                                      "MissingMigration", "InvalidMigrationContent"}
                      => tx[p].ended = "rollback"
               /\ (result[p].kind = "DB" /\ Len(stmts[p]) >= 2) => tx[p].ended = "rollback"
               /\ (Failed(p) /\ Len(stmts[p]) <= 1 /\ result[p].kind \in
                       {"DB", "CurrentMigrations", "ExistingConnectError", "InvalidURL",
                        "BaseConnect"}) => tx[p].ended = "no"

\* A call that executed a body in its transaction and then returned an
\* error: the transaction was rolled back.
TransactionClosedWitness ==
    \E p \in Callers :
        /\ Done(p)
        /\ result[p].kind = "InvalidMigrationContent"
        /\ Len(Bodies(stmts[p])) >= 1
        /\ tx[p].ended = "rollback"

\* ---------------------------------------------------------------------
\* get_migrated
\* ---------------------------------------------------------------------

\* The history query of the call, once it is made.
Selects(p) == { i \in 1..Len(conn[p]) : conn[p][i].op = "SELECT" }

\* C16: when the query succeeds get_migrated returns the recorded
\* identities in ascending id order; when it fails with a database error of
\* code 42P01 it returns the empty history; on every other failure (another
\* code, no code, not a database error) the call returns CurrentMigrations,
\* having begun no transaction and sent no statement.
HistoryRead ==
    \A p \in Callers :
        /\ \A i \in Selects(p) :
               /\ i = Len(conn[p])
               /\ conn[p][i].out = "ok" =>
                      /\ migrated[p] = pre[p].history
                      /\ result[p].kind # "CurrentMigrations"
               /\ conn[p][i].out = "42P01" =>
                      /\ migrated[p] = <<>>
                      /\ result[p].kind # "CurrentMigrations"
               /\ conn[p][i].out \in {"3D000", "dbcode", "nocode", "other"} =>
                      /\ Done(p)
                      /\ result[p].kind = "CurrentMigrations"
                      /\ stmts[p] = <<>>
                      /\ tx[p] = NoTx
        /\ result[p].kind = "CurrentMigrations" =>
               \E i \in Selects(p) : conn[p][i].out \notin {"ok", "42P01"}
        /\ (Selects(p) # {} /\ result[p].kind # "CurrentMigrations") =>
               pc[p] # "get_migrated"

\* A call that read a recorded history of two rows, and a later call whose
\* query failed with a database error of another code.
HistoryReadWitness ==
    \E p \in Callers :
        /\ Done(p)
        /\ result[p].kind = "CurrentMigrations"
        /\ conn[p][Len(conn[p])] = Ev("SELECT", "url", <<>>, "dbcode")
        /\ Len(pre[p].history) >= 2

\* ---------------------------------------------------------------------
\* The bookkeeping table
\* ---------------------------------------------------------------------

\* The positions of CREATE TABLE IF NOT EXISTS among the call's statements.
Creates(p) == { i \in 1..Len(stmts[p]) : stmts[p][i].op = "CREATE TABLE" }

\* The call has passed `if migrated.is_empty() { ... }`, or returned from it
\* with the error of the statement.
PastCreate(p) ==
    \/ pc[p] \in {"collect", "walk", "execute", "insert", "commit"}
    \/ Done(p) /\ (Succeeded(p) \/ Len(stmts[p]) >= 2 \/ tx[p].ended = "rollback")

\* C17: a call issues CREATE TABLE IF NOT EXISTS exactly when the history
\* it read is empty, as the first statement after BEGIN and so before every
\* body; a call that read a non-empty history never issues it; and the
\* table is visible outside the call only once the call has committed.
LazyTable ==
    \A p \in Callers :
        /\ \A i \in Creates(p) :
               /\ i = 2
               /\ stmts[p][1] = Stmt("BEGIN", <<>>)
               /\ migrated[p] = <<>>
               /\ \A j \in 1..Len(stmts[p]) : stmts[p][j].op \in {"BODY", "INSERT"} => j > i
        /\ PastCreate(p) => (Creates(p) # {} <=> migrated[p] = <<>>)
        /\ migrated[p] # <<>> => Creates(p) = {}
        /\ (pc[p] # "idle" /\ tableExists # pre[p].tableExists) =>
               /\ Succeeded(p)
               /\ Creates(p) # {}
        /\ (Succeeded(p) /\ Creates(p) # {}) => tableExists

\* A call that read the empty history, created the table and executed a
\* body in its transaction, and failed: the table is not there.
LazyTableWitness ==
    \E p \in Callers :
        /\ Failed(p)
        /\ Creates(p) = {2}
        /\ Len(Bodies(stmts[p])) >= 1
        /\ ~tableExists

\* ---------------------------------------------------------------------
\* UTF-8 validation
\* ---------------------------------------------------------------------

ValidText(s) == \A i \in 1..Len(s) : s[i] <= MaxAscii

\* The call is in the loop over the sorted candidates, or it has returned
\* from it; pos[p] candidates have been passed.
Walking(p) ==
    \/ pc[p] \in {"walk", "execute", "insert", "commit"}
    \/ Done(p) /\ Succeeded(p)
    \/ Done(p) /\ tx[p].ended = "rollback" /\ result[p].kind # "DeletedMigrations"

\* The call returned an error from the loop's turn for candidate pos[p].
StoppedAt(p) == Done(p) /\ Failed(p) /\ Walking(p) /\ pos[p] < Len(files[p])

Sends(p, op, path) == \E i \in 1..Len(stmts[p]) : stmts[p][i] = Stmt(op, path)

\* C18: the loop, candidate by candidate in sorted order: a candidate that
\* is not recorded (pos >= len(history)) whose content is not UTF-8 ends
\* the call with InvalidMigrationContent naming its path, its body not
\* executed and its row not inserted; a recorded candidate is passed
\* whatever its content; a candidate whose path is not UTF-8 ends the call
\* with InvalidMigrationPath at every position, recorded ones included.
Utf8Scope ==
    \A p \in Callers :
        /\ Walking(p) =>
               \A j \in 1..Len(files[p]) :
                   /\ j <= pos[p] => ValidText(files[p][j].path)
                   /\ (j <= pos[p] /\ j > Len(migrated[p])) =>
                          /\ ValidText(files[p][j].content)
                          /\ Sends(p, "BODY", files[p][j].path)
                          /\ Sends(p, "INSERT", files[p][j].path)
        /\ StoppedAt(p) =>
               LET f == files[p][pos[p] + 1] IN
                   /\ ~ValidText(f.path) => result[p] = Res("InvalidMigrationPath", f.path)
                   /\ (ValidText(f.path) /\ pos[p] >= Len(migrated[p])
                           /\ ~ValidText(f.content)) =>
                          /\ result[p] = Res("InvalidMigrationContent", f.path)
                          /\ ~Sends(p, "BODY", f.path)
                          /\ ~Sends(p, "INSERT", f.path)
                   /\ (ValidText(f.path) /\ pos[p] < Len(migrated[p])) =>
                          /\ result[p] = Res("MissingMigration", f.path)
                          /\ migrated[p][pos[p] + 1] # f.path
        /\ result[p].kind \in {"InvalidMigrationContent", "InvalidMigrationPath"} =>
               /\ StoppedAt(p)
               /\ result[p].arg = files[p][pos[p] + 1].path
               /\ result[p].kind = "InvalidMigrationContent" =>
                      /\ pos[p] >= Len(migrated[p])
                      /\ ~ValidText(files[p][pos[p] + 1].content)
        /\ Succeeded(p) => pos[p] = Len(files[p])

\* A successful call that passed a recorded candidate whose content is not
\* UTF-8 and applied a new candidate after it.
Utf8ScopeWitness ==
    \E p \in Callers :
        /\ Succeeded(p)
        /\ \E j \in 1..Len(migrated[p]) : ~ValidText(files[p][j].content)
        /\ Len(Bodies(stmts[p])) >= 1

\* ---------------------------------------------------------------------
\* Two concurrent callers
\* ---------------------------------------------------------------------

BothReturned == \A p \in Callers : Done(p)

\* The identity of the call's latest INSERT.
LastInsert(p) == stmts[p][Len(stmts[p])].arg

EndedAtInsert(p) ==
    /\ Done(p)
    /\ stmts[p] # <<>>
    /\ stmts[p][Len(stmts[p])].op = "INSERT"

\* No identity and no body's effect is committed twice; an effect is
\* committed exactly with its identity.
CommittedOnce ==
    /\ NoDuplicates(history)
    /\ \A q \in Paths : applied[q] = IF q \in Range(history) THEN 1 ELSE 0

\* C14 as stated: nothing is committed twice; a caller whose INSERT found
\* the identity already inserted by the other caller ends with a database
\* error and commits nothing; once both have returned the history is a
\* prefix of the sorted candidate set.
MutualExclusionAsStated ==
    /\ CommittedOnce
    /\ \A p \in Callers :
           /\ (Done(p) /\ race[p] # "no") =>
                  result[p].kind = "DB" /\ tx[p].ended = "rollback"
           /\ BothReturned => IsPrefix(history, Ascending(PathsOf(dir[p])))

\* C14, amended: nothing is committed twice, and two open transactions
\* never hold the same identity; a caller whose INSERT meets an identity
\* the other caller has committed ends with a database error and commits
\* nothing; an INSERT that meets an identity held by the other's open
\* transaction waits, loses in that way if the other commits, and goes on
\* if the other rolls back; once both have returned the history is a prefix
\* of the sorted candidate set.
MutualExclusion ==
    /\ CommittedOnce
    /\ \A p \in Callers :
           /\ tx[p].open =>
                  /\ Range(tx[p].rows) \cap Range(history) = {}
                  /\ \A q \in Others(p) :
                         tx[q].open => Range(tx[p].rows) \cap Range(tx[q].rows) = {}
           /\ race[p] = "waiting" =>
                  /\ pc[p] = "insert_wait"
                  /\ stmts[p][Len(stmts[p])].op = "INSERT"
           /\ race[p] = "lost" =>
                  /\ EndedAtInsert(p)
                  /\ result[p].kind = "DB"
                  /\ tx[p].ended = "rollback"
                  /\ LastInsert(p) \in Range(history)
                  /\ \E q \in Others(p) :
                         Succeeded(q) /\ LastInsert(p) \in Range(ArgsOf(Inserts(stmts[q])))
           /\ race[p] = "won" =>
                  \E q \in Others(p) : Failed(q) /\ tx[q].ended = "rollback"
           /\ (EndedAtInsert(p) /\ result[p].kind = "DB" /\ ~fault[p]) =>
                  /\ tx[p].ended = "rollback"
                  /\ LastInsert(p) \in Range(history)
           /\ \A q \in Others(p) :
                  (Succeeded(p) /\ Succeeded(q)) =>
                      Range(ArgsOf(Inserts(stmts[p]))) \cap Range(ArgsOf(Inserts(stmts[q]))) = {}
           /\ Succeeded(p) => Range(ArgsOf(Inserts(stmts[p]))) \subseteq Range(history)
           /\ BothReturned => IsPrefix(history, Ascending(PathsOf(dir[p])))

\* Both callers read the empty history and executed the body of "0"; one
\* committed "0" and "1", the other's INSERT of "0" waited and lost.
MutualExclusionWitness ==
    \E p \in Callers : \E q \in Others(p) :
        /\ Succeeded(q)
        /\ history = << <<48>>, <<49>> >>
        /\ race[p] = "lost"
        /\ migrated[p] = <<>>
        /\ migrated[q] = <<>>
        /\ Len(Bodies(stmts[p])) = 1

\* ---------------------------------------------------------------------
\* Two callers and a missing database
\* ---------------------------------------------------------------------

\* The CREATE DATABASE statements of the call.
CreateDbs(p) == { i \in 1..Len(conn[p]) : conn[p][i].op = "CREATE DATABASE" }

CreatedDb(p) == \E i \in CreateDbs(p) : conn[p][i].out = "ok"

\* C20: of two callers that both saw 3D000 and both issued CREATE DATABASE
\* at most one succeeds, so the database is created once; the caller whose
\* CREATE DATABASE fails returns the database error at once: it issues no
\* second CREATE DATABASE, does not connect to the url again, and sends no
\* statement of the migration phase.
ProvisioningRace ==
    /\ Cardinality({ p \in Callers : CreatedDb(p) }) <= 1
    /\ (\E p \in Callers : CreatedDb(p)) => dbExists
    /\ \A p \in Callers :
           /\ Cardinality(CreateDbs(p)) <= 1
           /\ \A i \in CreateDbs(p) :
                  /\ FirstOutcome(p) = "3D000"
                  /\ conn[p][i].out # "ok" =>
                         /\ Done(p)
                         /\ result[p] = Res("DB", <<>>)
                         /\ i = Len(conn[p])
                         /\ Cardinality(UrlConnects(p)) = 1
                         /\ Selects(p) = {}
                         /\ stmts[p] = <<>>
                         /\ tx[p] = NoTx
                         /\ migrated[p] = <<>>
                  /\ (conn[p][i].out # "ok" /\ ~fault[p]) =>
                         \E q \in Others(p) : CreatedDb(q)

\* Both callers saw 3D000 and issued CREATE DATABASE; one created the
\* database, the other returned the database error of its statement.
ProvisioningRaceWitness ==
    \E p \in Callers : \E q \in Others(p) :
        /\ CreatedDb(q)
        /\ CreateDbs(p) # {}
        /\ FirstOutcome(p) = "3D000" /\ FirstOutcome(q) = "3D000"
        /\ result[p] = Res("DB", <<>>)
        /\ ~fault[p]
        /\ dbExists

\* ---------------------------------------------------------------------
\* Progress of two concurrent callers
\* ---------------------------------------------------------------------

\* The candidate set is valid: every path and every content is UTF-8.
ValidSet(d) == \A i \in 1..Len(d) : ValidText(d[i].path) /\ ValidText(d[i].content)

\* Both calls found the database, were given a valid set, and no step of
\* theirs failed for a reason other than the other caller.
Undisturbed ==
    \A p \in Callers :
        /\ Attempted(p)
        /\ FirstOutcome(p) = "ok"
        /\ ValidSet(dir[p])
        /\ ~fault[p]

\* What two undisturbed calls leave behind.
Settled ==
    /\ BothReturned
    /\ Undisturbed =>
           /\ \E p \in Callers : Succeeded(p)
           /\ \A p \in Callers : history = Ascending(PathsOf(dir[p]))

\* C19: under fair scheduling of the two callers both calls return (their
\* transactions never wait for each other in a circle), and when the
\* database existed, the candidate set is valid and nothing failed but for
\* the other caller, at least one call returns success and the committed
\* history is the whole sorted candidate set.
ContentionProgress == <>[]Settled

\* Both calls have returned undisturbed: one committed "0" and "1", the
\* other lost the race for "0".
ContentionProgressWitness ==
    /\ BothReturned
    /\ Undisturbed
    /\ \E p \in Callers : race[p] = "lost" /\ result[p].kind = "DB"
    /\ history = << <<48>>, <<49>> >>

====
